---- MODULE Spec2Model ----
(***************************************************************************)
(* State-machine model of serf's HTTP/2 stream object                      *)
(* (protocols/http2_stream.c): stream creation, request binding, reset,    *)
(* inbound HEADERS / DATA / PUSH_PROMISE handling, the response aggregate  *)
(* and the stream processor.                                               *)
(***************************************************************************)
EXTENDS Integers, Sequences, FiniteSets, TLC

\* ---- bounds of the model ------------------------------------------------
NStreams == 2
NReqs == 2
MaxQueue == 2
MaxBuckets == 2
\* streams the connection opens for its own requests
MaxOpen == 1

\* ---- program constants --------------------------------------------------
NULL == 0
UNASSIGNED == -1

H2S_INIT == "H2S_INIT"
H2S_IDLE == "H2S_IDLE"
H2S_RESERVED_REMOTE == "H2S_RESERVED_REMOTE"
H2S_HALFCLOSED_LOCAL == "H2S_HALFCLOSED_LOCAL"
H2S_HALFCLOSED_REMOTE == "H2S_HALFCLOSED_REMOTE"
H2S_CLOSED == "H2S_CLOSED"

APR_SUCCESS == "APR_SUCCESS"
APR_EGENERAL == "APR_EGENERAL"
APR_EOF == "APR_EOF"
APR_EAGAIN == "APR_EAGAIN"
\* an error status of the response handler, of serf__setup_request and of
\* serf__bucket_hpack_create_from_request
SERF_ERROR == "SERF_ERROR"
SETUP_ERROR == "SETUP_ERROR"
HPACK_ERROR == "HPACK_ERROR"

HTTP2_FRAME_TYPE_HEADERS == "HEADERS"
HTTP2_FRAME_TYPE_PUSH_PROMISE == "PUSH_PROMISE"
HTTP2_FRAME_TYPE_RST_STREAM == "RST_STREAM"
HTTP2_FLAG_END_STREAM == "END_STREAM"
HTTP2_FLAG_END_HEADERS == "END_HEADERS"

SERF_ERROR_HTTP2_REFUSED_STREAM == "REFUSED_STREAM"
SERF_ERROR_HTTP2_CANCEL == "CANCEL"

\* ---- input domains ------------------------------------------------------
Streams == 1..NStreams
Reqs == 1..NReqs
\* stream ids handed to serf_http2__stream_create
CreateIds == {UNASSIGNED, 0, 2}
\* ids the peer promises in a PUSH_PROMISE
PromisedIds == {2}
Reasons == {SERF_ERROR_HTTP2_CANCEL, SERF_ERROR_HTTP2_REFUSED_STREAM}
\* outcome of serf__setup_request: failure, or a request bucket without or
\* with a body
PrepOutcomes == {"fail", "no_body", "with_body"}
\* what the application's response handler can return
HandlerResults == {APR_SUCCESS, APR_EAGAIN, APR_EOF, SERF_ERROR}

VARIABLES
  allocated,   \* stream slots that serf_http2__stream_create has returned
  streams,     \* serf_http2_stream_t and its serf_http2_stream_data_t
  aggregate,   \* number of unread buckets held by a stream's response_agg
  promise_agg, \* parents whose PUSH_PROMISE aggregate is still being drained
  requests,    \* serf_request_t: next, req_bkt, resp_bkt
  destroyed,   \* requests passed to serf__destroy_request
  conn,        \* serf_connection_t request lists and counter
  h2,          \* serf_http2_protocol_t: outbound frame queue, next local id
  last,        \* the operation that ran last, its arguments and its result
  fault        \* "none", or why the process stopped

vars == <<allocated, streams, aggregate, promise_agg, requests, destroyed,
          conn, h2, last, fault>>

\* ---- helpers ------------------------------------------------------------
Op(op, s, ret) == [op |-> op, stream |-> s, ret |-> ret]

\* The requests reachable from head through the next pointers.
RECURSIVE Chain(_, _, _)
Chain(rq, head, fuel) ==
  IF head = NULL \/ fuel = 0 THEN <<>>
  ELSE <<head>> \o Chain(rq, rq[head].next, fuel - 1)

UnwrittenList == Chain(requests, conn.unwritten_reqs, NReqs + 1)
WrittenList == Chain(requests, conn.written_reqs, NReqs + 1)

\* serf_http2__stream_create: the record it fills in.
stream_create_mut(streamid) ==
  [status |-> H2S_INIT,
   streamid |-> IF streamid >= 0 THEN streamid ELSE UNASSIGNED,
   request |-> NULL, response_agg |-> NULL, new_reserved_stream |-> NULL]

stream_create(streamid) ==
  [status |-> IF streamid >= 0 THEN H2S_IDLE ELSE H2S_INIT,
   streamid |-> IF streamid >= 0 THEN streamid ELSE UNASSIGNED,
   request |-> NULL, response_agg |-> NULL, new_reserved_stream |-> NULL]

FreshStream == stream_create(UNASSIGNED)

\* serf__bucket_http2_frame_create for a HEADERS frame: the id is read
\* through &stream->streamid when the frame is serialized.
HeadersFrame(s, flags) ==
  [type |-> HTTP2_FRAME_TYPE_HEADERS, flags |-> flags, stream |-> s,
   id |-> UNASSIGNED, reason |-> "-"]

\* serf_http2__enqueue_stream_reset: the id is passed by value.
RstFrame(id, reason) ==
  [type |-> HTTP2_FRAME_TYPE_RST_STREAM, flags |-> {}, stream |-> NULL,
   id |-> id, reason |-> reason]

\* serf_http2__enqueue_frame
enqueue_frame(q, frame) == Append(q, frame)

\* serf__link_requests: append request to the list (list, tail).
link_requests(c, rq, request) ==
  IF c.written_reqs = NULL
    THEN [c |-> [c EXCEPT !.written_reqs = request,
                          !.written_reqs_tail = request],
          rq |-> rq]
    ELSE [c |-> [c EXCEPT !.written_reqs_tail = request],
          rq |-> [rq EXCEPT ![c.written_reqs_tail].next = request]]

\* serf_http2__stream_reset on stream s: new stream table, frame queue and
\* the returned status.
stream_reset_mut(st, q, s, reason, local_reset) ==
  LET st2 == [st EXCEPT ![s].status = H2S_CLOSED] IN
  IF local_reset
    THEN [streams |-> st2,
          frames |-> enqueue_frame(q, RstFrame(st[s].streamid, reason)),
          ret |-> APR_SUCCESS]
    ELSE [streams |-> st2, frames |-> q, ret |-> APR_SUCCESS]

stream_reset(st, q, s, reason, local_reset) ==
  LET st2 == [st EXCEPT ![s].status = H2S_CLOSED] IN
  IF st[s].streamid < 0
    THEN [streams |-> st2, frames |-> q, ret |-> APR_SUCCESS]
    ELSE IF local_reset
      THEN [streams |-> st2,
            frames |-> enqueue_frame(q, RstFrame(st[s].streamid, reason)),
            ret |-> APR_SUCCESS]
      ELSE [streams |-> st2, frames |-> q, ret |-> APR_SUCCESS]

\* ---- initial state ------------------------------------------------------
NoRequest == [next |-> NULL, req_bkt |-> "NULL", resp_bkt |-> FALSE]
EmptyConn == [unwritten_reqs |-> NULL, unwritten_reqs_tail |-> NULL,
              written_reqs |-> NULL, written_reqs_tail |-> NULL,
              nr_of_written_reqs |-> 0]
EmptyH2 == [frames |-> <<>>, lr_next_streamid |-> 1]

\* A connection with NReqs requests queued in unwritten_reqs, each of them
\* either not set up yet or already holding its request bucket; no request
\* written, no stream created, nothing queued for the wire.
Init ==
  /\ allocated = {}
  /\ streams = [s \in Streams |-> FreshStream]
  /\ aggregate = [s \in Streams |-> 0]
  /\ promise_agg = {}
  /\ \E bk \in [Reqs -> {"NULL", "with_body"}] :
       requests = [r \in Reqs |->
                     [next |-> IF r < NReqs THEN r + 1 ELSE NULL,
                      req_bkt |-> bk[r], resp_bkt |-> FALSE]]
  /\ destroyed = {}
  /\ conn = [EmptyConn EXCEPT !.unwritten_reqs = 1,
                              !.unwritten_reqs_tail = NReqs]
  /\ h2 = EmptyH2
  /\ last = Op("init", NULL, "-")
  /\ fault = "none"

\* The process stops: a failed SERF_H2_assert in a debug build, or a
\* dereference of a null or freed pointer.  Nothing of the program's state
\* is left.
Crash(op, s, why) ==
  /\ fault' = why
  /\ last' = Op(op, s, "-")
  /\ allocated' = {}
  /\ streams' = [x \in Streams |-> FreshStream]
  /\ aggregate' = [x \in Streams |-> 0]
  /\ promise_agg' = {}
  /\ requests' = [r \in Reqs |-> NoRequest]
  /\ destroyed' = {}
  /\ conn' = EmptyConn
  /\ h2' = EmptyH2

\* ---- serf_http2__stream_create ------------------------------------------
\* Slots are handed out in order: the slot number only names the allocation.
StreamCreate(s, streamid) ==
  /\ fault = "none"
  /\ s \notin allocated
  /\ s = Cardinality(allocated) + 1
  /\ allocated' = allocated \cup {s}
  /\ streams' = [streams EXCEPT ![s] = stream_create(streamid)]
  /\ aggregate' = [aggregate EXCEPT ![s] = 0]
  /\ last' = Op("create", s, "-")
  /\ UNCHANGED <<promise_agg, requests, destroyed, conn, h2, fault>>

\* ---- serf_http2__stream_reset -------------------------------------------
StreamReset(s, reason, local_reset) ==
  /\ fault = "none"
  /\ s \in allocated
  /\ Len(h2.frames) < MaxQueue
  /\ LET r == stream_reset(streams, h2.frames, s, reason, local_reset) IN
       /\ streams' = r.streams
       /\ h2' = [h2 EXCEPT !.frames = r.frames]
       /\ last' = Op("reset", s, r.ret)
  /\ UNCHANGED <<allocated, aggregate, promise_agg, requests, destroyed,
                 conn, fault>>

\* ---- serf_http2__stream_setup_next_request ------------------------------
\* lines 108-112: take request off the head of conn->unwritten_reqs.
unlink_unwritten_mut(c, rq, request) ==
  [c |-> [c EXCEPT !.unwritten_reqs = rq[request].next],
   rq |-> [rq EXCEPT ![request].next = NULL]]

unlink_unwritten(c, rq, request) ==
  LET c1 == [c EXCEPT !.unwritten_reqs = rq[request].next]
      c2 == IF c.unwritten_reqs_tail = request
              THEN [c1 EXCEPT !.unwritten_reqs = NULL,
                              !.unwritten_reqs_tail = NULL]
              ELSE c1
  IN [c |-> c2, rq |-> [rq EXCEPT ![request].next = NULL]]

\* lines 135-142: the flags given to the HEADERS frame.
headers_flags(body) == {HTTP2_FLAG_END_STREAM, HTTP2_FLAG_END_HEADERS}

\* line 146: the status after the HEADERS frame is queued.
status_after_headers(old) == H2S_HALFCLOSED_LOCAL

\* The body of the function once request is known to be non-null.
\* nr_of_written_reqs is counted up and down again (lines 116-117); its
\* declaration is outside this file, so it is kept as a plain integer.
SetupRequest(s, request, prep, hpack_ok) ==
  LET st1 == [streams EXCEPT ![s].request = request]
      needs_setup == requests[request].req_bkt = "NULL"
  IN
  IF needs_setup /\ prep = "fail"
    THEN \* serf__setup_request failed (line 105)
      /\ streams' = st1
      /\ last' = Op("setup_next_request", s, SETUP_ERROR)
      /\ UNCHANGED <<allocated, aggregate, promise_agg, requests,
                     destroyed, conn, h2, fault>>
    ELSE
      LET rq1 == IF needs_setup
                   THEN [requests EXCEPT ![request].req_bkt = prep]
                   ELSE requests
          ul == unlink_unwritten(conn, rq1, request)
          lk == link_requests(ul.c, ul.rq, request)
          c3 == [lk.c EXCEPT !.nr_of_written_reqs = @ + 1]
          c4 == [c3 EXCEPT !.nr_of_written_reqs = @ - 1]
          body == lk.rq[request].req_bkt = "with_body"
      IN
      IF ~hpack_ok
        THEN \* serf__bucket_hpack_create_from_request failed (line 125)
          /\ streams' = st1
          /\ requests' = lk.rq
          /\ conn' = c4
          /\ last' = Op("setup_next_request", s, HPACK_ERROR)
          /\ UNCHANGED <<allocated, aggregate, promise_agg, destroyed,
                         h2, fault>>
        ELSE
          /\ requests' = IF ~body
                           THEN [lk.rq EXCEPT ![request].req_bkt = "NULL"]
                           ELSE lk.rq
          /\ conn' = c4
          /\ h2' = [h2 EXCEPT !.frames =
                      enqueue_frame(@, HeadersFrame(s, headers_flags(body)))]
          /\ streams' = [st1 EXCEPT ![s].status =
                           status_after_headers(streams[s].status)]
          /\ last' = Op("setup_next_request", s, APR_SUCCESS)
          /\ UNCHANGED <<allocated, aggregate, promise_agg, destroyed,
                         fault>>

SetupNextRequest(s, prep, hpack_ok) ==
  /\ fault = "none"
  /\ s \in allocated
  /\ Len(h2.frames) < MaxQueue
  /\ LET request == conn.unwritten_reqs IN
       \/ /\ request = NULL
          /\ \/ Crash("setup_next_request", s, "assert")
             \/ /\ last' = Op("setup_next_request", s, APR_EGENERAL)
                /\ UNCHANGED <<allocated, streams, aggregate, promise_agg,
                               requests, destroyed, conn, h2, fault>>
       \/ /\ request \in destroyed
          /\ Crash("setup_next_request", s, "use_after_free")
       \/ /\ request # NULL
          /\ SetupRequest(s, request, prep, hpack_ok)

\* ---- frame serialization (serf_http2__allocate_stream_id) ---------------
allocate_stream_id_mut(st, h, s) ==
  IF st[s].streamid < 0
    THEN [streams |-> [st EXCEPT ![s].streamid = h.lr_next_streamid,
                                 ![s].status = IF @ = H2S_INIT
                                                 THEN H2S_IDLE ELSE @],
          h2 |-> h]
    ELSE [streams |-> st, h2 |-> h]

allocate_stream_id(st, h, s) ==
  IF st[s].streamid < 0
    THEN [streams |-> [st EXCEPT ![s].streamid = h.lr_next_streamid,
                                 ![s].status = IF @ = H2S_INIT
                                                 THEN H2S_IDLE ELSE @],
          h2 |-> [h EXCEPT !.lr_next_streamid = @ + 2]]
    ELSE [streams |-> st, h2 |-> h]

\* The connection writes the frame at the head of the queue.
Serialize ==
  /\ fault = "none"
  /\ h2.frames # <<>>
  /\ LET f == Head(h2.frames)
         a == IF f.type = HTTP2_FRAME_TYPE_HEADERS
                THEN allocate_stream_id(streams, h2, f.stream)
                ELSE [streams |-> streams, h2 |-> h2]
     IN /\ streams' = a.streams
        /\ h2' = [a.h2 EXCEPT !.frames = Tail(h2.frames)]
        /\ last' = Op("serialize", f.stream, "-")
  /\ UNCHANGED <<allocated, aggregate, promise_agg, requests, destroyed,
                 conn, fault>>

\* ---- the response aggregate ---------------------------------------------
\* stream_response_eof: the hold-open callback of response_agg.
stream_response_eof_mut(status) ==
  IF status \in {H2S_CLOSED, H2S_HALFCLOSED_REMOTE, H2S_HALFCLOSED_LOCAL}
    THEN APR_EOF ELSE APR_EAGAIN

stream_response_eof(status) ==
  IF status \in {H2S_CLOSED, H2S_HALFCLOSED_REMOTE}
    THEN APR_EOF ELSE APR_EAGAIN

\* stream_setup_response: a new aggregate; it is stored in the stream (and
\* handed to the request's acceptor) only when a request is bound.
stream_setup_response(st, rq, ag, s) ==
  LET request == st[s].request IN
  IF request = NULL
    THEN [streams |-> st, requests |-> rq, aggregate |-> ag]
    ELSE [streams |-> [st EXCEPT ![s].response_agg = s],
          requests |-> [rq EXCEPT ![request].resp_bkt = TRUE],
          aggregate |-> [ag EXCEPT ![s] = 0]]

\* lines 292-298 and 336-342: the effect of END_STREAM on the status.
end_stream_status_mut(status, end_stream) ==
  IF end_stream THEN H2S_HALFCLOSED_REMOTE ELSE status

end_stream_status(status, end_stream) ==
  IF end_stream
    THEN IF status = H2S_HALFCLOSED_LOCAL
           THEN H2S_CLOSED ELSE H2S_HALFCLOSED_REMOTE
    ELSE status

\* The common part of handle_hpack(HEADERS) and handle_data: set up the
\* response if there is none, append the payload, apply END_STREAM.
\* Appending to a null response_agg, or reading a destroyed request in
\* stream_setup_response, is undefined: the process stops or carries on
\* without the append.
ReceivePayload(op, s, end_stream) ==
  LET sr == IF streams[s].response_agg = NULL
              THEN stream_setup_response(streams, requests, aggregate, s)
              ELSE [streams |-> streams, requests |-> requests,
                    aggregate |-> aggregate]
      no_agg == sr.streams[s].response_agg = NULL
      freed == /\ streams[s].response_agg = NULL
               /\ streams[s].request \in destroyed
  IN
  \/ /\ no_agg
     /\ Crash(op, s, "null_deref")
  \/ /\ freed
     /\ Crash(op, s, "use_after_free")
  \/ /\ streams' = [sr.streams EXCEPT ![s].status =
                      end_stream_status(@, end_stream)]
     /\ requests' = sr.requests
     /\ aggregate' = IF no_agg THEN sr.aggregate
                     ELSE [sr.aggregate EXCEPT ![s] = @ + 1]
     /\ last' = Op(op, s, "NULL")
     /\ UNCHANGED <<allocated, promise_agg, destroyed, conn, h2, fault>>

\* ---- serf_http2__stream_handle_hpack -------------------------------------
\* The connection finds the stream of an inbound frame by the frame's stream
\* id, so only a stream that has an id receives frames.
HandleHeaders(s, end_stream) ==
  /\ fault = "none"
  /\ s \in allocated
  /\ streams[s].streamid >= 0
  /\ aggregate[s] < MaxBuckets
  /\ ReceivePayload("handle_hpack", s, end_stream)

\* A PUSH_PROMISE header block: it is wrapped in an aggregate whose
\* hold-open callback is stream_promise_done, and handed back to the caller,
\* which drains it before it handles the next frame.
HandlePushPromise(s) ==
  /\ fault = "none"
  /\ s \in allocated
  /\ streams[s].streamid >= 0
  /\ s \notin promise_agg
  /\ promise_agg' = promise_agg \cup {s}
  /\ last' = Op("handle_hpack", s, "agg")
  /\ UNCHANGED <<allocated, streams, aggregate, requests, destroyed, conn,
                 h2, fault>>

\* ---- serf_http2__stream_handle_data --------------------------------------
HandleData(s, end_stream) ==
  /\ fault = "none"
  /\ s \in allocated
  /\ streams[s].streamid >= 0
  /\ aggregate[s] < MaxBuckets
  /\ ReceivePayload("handle_data", s, end_stream)

\* ---- push promise --------------------------------------------------------
\* The connection sees PUSH_PROMISE on parent p: it creates the promised
\* stream c with the promised id, in RESERVED_REMOTE, and records it in p.
ReservePromise(p, c, id) ==
  /\ fault = "none"
  /\ p \in allocated
  /\ streams[p].streamid >= 0
  /\ c \notin allocated
  /\ c = Cardinality(allocated) + 1
  /\ streams[p].new_reserved_stream = NULL
  /\ allocated' = allocated \cup {c}
  /\ streams' = [streams EXCEPT
                   ![c] = [stream_create(id) EXCEPT
                             !.status = H2S_RESERVED_REMOTE],
                   ![p].new_reserved_stream = c]
  /\ aggregate' = [aggregate EXCEPT ![c] = 0]
  /\ last' = Op("reserve", c, "-")
  /\ UNCHANGED <<promise_agg, requests, destroyed, conn, h2, fault>>

\* stream_promise_done: the reason it resets the promised stream with.
promise_reject_mut(st, q, c) ==
  [streams |-> st, frames |-> q, ret |-> APR_SUCCESS]

promise_reject(st, q, c) ==
  stream_reset(st, q, c, SERF_ERROR_HTTP2_REFUSED_STREAM, TRUE)

\* stream_promise_done: the PUSH_PROMISE aggregate of parent p reached EOF.
PromiseDone(p) ==
  /\ fault = "none"
  /\ p \in promise_agg
  /\ Len(h2.frames) < MaxQueue
  /\ LET c == streams[p].new_reserved_stream IN
       \/ /\ c = NULL
          /\ Crash("promise_done", p, "null_deref")
       \/ /\ c # NULL
          /\ streams[c].status # H2S_RESERVED_REMOTE
          /\ Crash("promise_done", p, "assert")
       \/ /\ c # NULL
          /\ LET st1 == [streams EXCEPT ![p].new_reserved_stream = NULL]
                 r == promise_reject(st1, h2.frames, c)
             IN /\ streams' = r.streams
                /\ h2' = [h2 EXCEPT !.frames = r.frames]
                /\ promise_agg' = promise_agg \ {p}
                /\ last' = Op("promise_done", p, APR_EOF)
          /\ UNCHANGED <<allocated, aggregate, requests, destroyed, conn,
                         fault>>

\* ---- serf_http2__stream_processor ----------------------------------------
SERF_BUCKET_READ_ERROR(status) == status = SERF_ERROR

unlink_written_mut(c, rq, request) == [c |-> c, rq |-> rq]

\* lines 372-391: take request out of conn->written_reqs if it is linked
\* there, and count it off.
unlink_written(c, rq, request) ==
  LET list == Chain(rq, c.written_reqs, NReqs + 1)
      found == \E k \in 1..Len(list) : list[k] = request
  IN
  IF ~found THEN [c |-> c, rq |-> rq]
  ELSE
    LET k == CHOOSE j \in 1..Len(list) : list[j] = request
        prev == IF k = 1 THEN NULL ELSE list[k - 1]
        c1 == IF prev = NULL
                THEN [c EXCEPT !.written_reqs = rq[request].next]
                ELSE c
        rq1 == IF prev = NULL THEN rq
               ELSE [rq EXCEPT ![prev].next = rq[request].next]
        c2 == IF c.written_reqs_tail = request
                THEN [c1 EXCEPT !.written_reqs_tail = prev]
                ELSE c1
    IN [c |-> [c2 EXCEPT !.nr_of_written_reqs = @ - 1], rq |-> rq1]

\* lines 425-439: read the aggregate until a read reports something other
\* than APR_SUCCESS; a read of the emptied aggregate reports what the
\* hold-open callback says.
RECURSIVE drain(_, _)
drain(n, status) ==
  IF n > 0 THEN drain(n - 1, status)
  ELSE stream_response_eof(status)

\* lines 441-450: the aggregate is destroyed at EOF of a finished stream.
release_agg_never(st, s, status) == st

release_agg_mut(st, s, status) == [st EXCEPT ![s].response_agg = NULL]

release_agg(st, s, status) ==
  IF /\ status = APR_EOF
     /\ st[s].status \in {H2S_CLOSED, H2S_HALFCLOSED_REMOTE}
    THEN [st EXCEPT ![s].response_agg = NULL]
    ELSE st

\* The drain loop and what follows it, from stream table st.
Drain(s, st) ==
  LET status == drain(aggregate[s], st[s].status) IN
  /\ streams' = release_agg(st, s, status)
  /\ aggregate' = [aggregate EXCEPT ![s] = 0]
  /\ last' = Op("process", s, status)

\* hres is what the handler returns, taken buckets what it read.
Process(s, hres, taken) ==
  /\ fault = "none"
  /\ s \in allocated
  /\ Len(h2.frames) < MaxQueue
  /\ LET request == streams[s].request
         no_agg == streams[s].response_agg = NULL
     IN
     \/ /\ no_agg
        /\ Crash("process", s, IF request = NULL THEN "null_deref"
                               ELSE "assert")
     \/ /\ request \in destroyed
        /\ Crash("process", s, "use_after_free")
     \/ /\ request # NULL
        /\ ~requests[request].resp_bkt
        /\ Crash("process", s, "assert")
     \/ /\ request = NULL
        /\ ~no_agg
        /\ Drain(s, streams)
        /\ UNCHANGED <<allocated, promise_agg, requests, destroyed, conn,
                       h2, fault>>
     \/ /\ request # NULL
        /\ hres \notin {APR_EOF, SERF_ERROR}
        /\ taken <= aggregate[s]
        /\ aggregate' = [aggregate EXCEPT ![s] = @ - taken]
        /\ last' = Op("process", s, hres)
        /\ UNCHANGED <<allocated, streams, promise_agg, requests, destroyed,
                       conn, h2, fault>>
     \/ /\ request # NULL
        /\ hres = SERF_ERROR
        /\ SERF_BUCKET_READ_ERROR(hres)
        /\ taken <= aggregate[s]
        /\ LET ul == unlink_written(conn, requests, request)
               st1 == [streams EXCEPT ![s].request = NULL]
               r == IF streams[s].status # H2S_CLOSED
                      THEN stream_reset(st1, h2.frames, s, hres, TRUE)
                      ELSE [streams |-> st1, frames |-> h2.frames,
                            ret |-> APR_SUCCESS]
           IN /\ conn' = ul.c
              /\ requests' = ul.rq
              /\ destroyed' = destroyed \cup {request}
              /\ streams' = r.streams
              /\ h2' = [h2 EXCEPT !.frames = r.frames]
        /\ aggregate' = [aggregate EXCEPT ![s] = @ - taken]
        /\ last' = Op("process", s, hres)
        /\ UNCHANGED <<allocated, promise_agg, fault>>
     \/ /\ request # NULL
        /\ hres = APR_EOF
        /\ ~no_agg
        /\ LET ul == unlink_written(conn, requests, request)
           IN /\ conn' = ul.c
              /\ requests' = ul.rq
              /\ destroyed' = destroyed \cup {request}
              /\ Drain(s, [streams EXCEPT ![s].request = NULL])
        /\ UNCHANGED <<allocated, promise_agg, h2, fault>>

\* ---- one request and its response -----------------------------------------
\* The connection sends a request on a stream that has none yet.
SendRequest(s, prep, hpack_ok) ==
  /\ streams[s].request = NULL
  /\ streams[s].status \in {H2S_INIT, H2S_IDLE}
  /\ SetupNextRequest(s, prep, hpack_ok)

\* The peer answers a request that was sent, and sends nothing after its
\* END_STREAM.
ResponseHeaders(s, end_stream) ==
  /\ streams[s].status = H2S_HALFCLOSED_LOCAL
  /\ HandleHeaders(s, end_stream)

ResponseData(s, end_stream) ==
  /\ streams[s].status = H2S_HALFCLOSED_LOCAL
  /\ HandleData(s, end_stream)

\* The connection calls the processor for a stream that was handed a
\* frame; the handler reads the response and does not fail.
ProcessResponse(s, hres, taken) ==
  /\ streams[s].response_agg # NULL
  /\ ~SERF_BUCKET_READ_ERROR(hres)
  /\ Process(s, hres, taken)

\* ========================================================================
\* Properties
\* ========================================================================
Running == fault' = "none"

\* The step is a call of op on stream s that returned.
Called(op, s) == last'.op = op /\ last'.stream = s /\ Running

\* C1: once a stream's status is CLOSED, no operation on the stream changes
\* its status.
C1_ClosedAbsorbing ==
  [][\A s \in Streams :
       (Running /\ s \in allocated /\ streams[s].status = H2S_CLOSED)
         => streams'[s].status = H2S_CLOSED]_vars

\* C2 as stated: between operations the stream id is UNASSIGNED if and
\* only if the status is INIT.
C2_UnassignedIffInit ==
  \A s \in allocated :
    (streams[s].streamid = UNASSIGNED) <=> (streams[s].status = H2S_INIT)

\* C2 amended: a stream whose status is INIT has the UNASSIGNED id (a stream
\* with the UNASSIGNED id may also be HALFCLOSED_LOCAL or CLOSED).
C2_InitImpliesUnassigned ==
  \A s \in allocated :
    (streams[s].status = H2S_INIT) => (streams[s].streamid = UNASSIGNED)

C2_Witness ==
  /\ last.op = "create"
  /\ last.stream \in allocated
  /\ streams[last.stream].status = H2S_INIT
  /\ streams[last.stream].streamid = UNASSIGNED

\* C3: a reset of a stream that is already CLOSED (as it is after a first
\* local reset) enqueues nothing and returns success, so two local resets
\* of a stream with an assigned id enqueue one RST_STREAM in total.
C3_ResetIdempotent ==
  [][\A s \in Streams, reason \in Reasons, l \in BOOLEAN :
       (/\ Called("reset", s)
        /\ streams[s].status = H2S_CLOSED
        /\ StreamReset(s, reason, l))
         => (h2'.frames = h2.frames /\ last'.ret = APR_SUCCESS)]_vars

\* C4: reset leaves the status CLOSED and returns success; it appends one
\* RST_STREAM frame with the stream's id and the reason if and only if the
\* reset is local and the id is assigned, and no frame otherwise.
C4_ResetEffect ==
  [][\A s \in Streams, reason \in Reasons, l \in BOOLEAN :
       (Called("reset", s) /\ StreamReset(s, reason, l))
         => /\ streams'[s].status = H2S_CLOSED
            /\ last'.ret = APR_SUCCESS
            /\ IF l /\ streams[s].streamid >= 0
                 THEN /\ Len(h2'.frames) = Len(h2.frames) + 1
                      /\ SubSeq(h2'.frames, 1, Len(h2.frames)) = h2.frames
                      /\ LET f == h2'.frames[Len(h2'.frames)] IN
                           /\ f.type = HTTP2_FRAME_TYPE_RST_STREAM
                           /\ f.id = streams[s].streamid
                           /\ f.reason = reason
                 ELSE h2'.frames = h2.frames]_vars

C4_Witness ==
  /\ last.op = "reset"
  /\ last.ret = APR_SUCCESS
  /\ streams[last.stream].status = H2S_CLOSED
  /\ streams[last.stream].streamid >= 0
  /\ h2.frames # <<>>
  /\ LET f == h2.frames[Len(h2.frames)] IN
       /\ f.type = HTTP2_FRAME_TYPE_RST_STREAM
       /\ f.id = streams[last.stream].streamid
       /\ f.reason = SERF_ERROR_HTTP2_CANCEL

\* C5: after a reset of a stream whose request is bound, the stream's
\* request reference is null.
C5_ResetUnbinds ==
  [][\A s \in Streams, reason \in Reasons, l \in BOOLEAN :
       (/\ Called("reset", s)
        /\ streams[s].request # NULL
        /\ StreamReset(s, reason, l))
         => streams'[s].request = NULL]_vars

\* C6: a read of the response aggregate that finds no data left reports
\* EOF if the stream is CLOSED or HALFCLOSED_REMOTE and EAGAIN in every
\* other status: a processor call that reaches its drain loop (no request
\* bound, or the handler returned EOF and the request was unbound) empties
\* the aggregate and returns exactly that status.
C6_EofGating ==
  [][\A s \in Streams :
       (/\ Called("process", s)
        /\ streams'[s].request = NULL
        /\ ~SERF_BUCKET_READ_ERROR(last'.ret))
         => /\ aggregate'[s] = 0
            /\ last'.ret = IF streams[s].status \in
                              {H2S_CLOSED, H2S_HALFCLOSED_REMOTE}
                             THEN APR_EOF ELSE APR_EAGAIN]_vars

C6_Witness ==
  /\ last.op = "process"
  /\ last.ret = APR_EAGAIN
  /\ streams[last.stream].request = NULL
  /\ streams[last.stream].response_agg # NULL
  /\ aggregate[last.stream] = 0
  /\ streams[last.stream].status = H2S_HALFCLOSED_LOCAL

\* C7: a successful setup_next_request moves the head of unwritten_reqs to
\* the tail of written_reqs, keeps the order of the other requests and the
\* head and tail pointers consistent (both null for an empty list), binds
\* the request to the stream and appends one HEADERS frame for the stream.
ListEnds(list, head, tail) ==
  IF list = <<>> THEN head = NULL /\ tail = NULL
  ELSE head = list[1] /\ tail = list[Len(list)]

C7_SetupMovesHead ==
  [][\A s \in Streams, prep \in PrepOutcomes, ok \in BOOLEAN :
       (/\ Called("setup_next_request", s)
        /\ last'.ret = APR_SUCCESS
        /\ SetupNextRequest(s, prep, ok))
         => LET request == conn.unwritten_reqs IN
            /\ request # NULL
            /\ UnwrittenList' = Tail(UnwrittenList)
            /\ WrittenList' = Append(WrittenList, request)
            /\ ListEnds(UnwrittenList', conn'.unwritten_reqs,
                        conn'.unwritten_reqs_tail)
            /\ ListEnds(WrittenList', conn'.written_reqs,
                        conn'.written_reqs_tail)
            /\ streams'[s].request = request
            /\ Len(h2'.frames) = Len(h2.frames) + 1
            /\ SubSeq(h2'.frames, 1, Len(h2.frames)) = h2.frames
            /\ h2'.frames[Len(h2'.frames)].type = HTTP2_FRAME_TYPE_HEADERS
            /\ h2'.frames[Len(h2'.frames)].stream = s]_vars

C7_Witness ==
  /\ last.op = "setup_next_request"
  /\ last.ret = APR_SUCCESS
  /\ UnwrittenList = <<>>
  /\ conn.unwritten_reqs_tail = NULL
  /\ Len(WrittenList) = NReqs
  /\ streams[last.stream].request = WrittenList[NReqs]
  /\ conn.written_reqs_tail = WrittenList[NReqs]
  /\ h2.frames # <<>>
  /\ h2.frames[Len(h2.frames)].type = HTTP2_FRAME_TYPE_HEADERS

\* C8: the HEADERS frame of a successful setup_next_request has END_HEADERS
\* set and END_STREAM set if and only if the request has no body; the
\* status afterwards is HALFCLOSED_LOCAL if END_STREAM was set, else OPEN.
C8_HeadersFlags ==
  [][\A s \in Streams, prep \in PrepOutcomes, ok \in BOOLEAN :
       (/\ Called("setup_next_request", s)
        /\ last'.ret = APR_SUCCESS
        /\ SetupNextRequest(s, prep, ok))
         => LET f == h2'.frames[Len(h2'.frames)]
                body == requests'[conn.unwritten_reqs].req_bkt = "with_body"
            IN /\ HTTP2_FLAG_END_HEADERS \in f.flags
               /\ (HTTP2_FLAG_END_STREAM \in f.flags) <=> ~body
               /\ streams'[s].status =
                    IF HTTP2_FLAG_END_STREAM \in f.flags
                      THEN H2S_HALFCLOSED_LOCAL ELSE "H2S_OPEN"]_vars

\* C9: when request preparation fails, setup_next_request returns the
\* error, enqueues nothing and leaves the status as it was; when HPACK
\* encoding fails, the stream ends CLOSED.
C9_SetupFailures ==
  [][\A s \in Streams, prep \in PrepOutcomes, ok \in BOOLEAN :
       (Called("setup_next_request", s) /\ SetupNextRequest(s, prep, ok))
         => /\ (last'.ret = SETUP_ERROR)
                 => /\ h2'.frames = h2.frames
                    /\ streams'[s].status = streams[s].status
            /\ (last'.ret = HPACK_ERROR)
                 => streams'[s].status = H2S_CLOSED]_vars

\* C10: when the PUSH_PROMISE header block on parent p completes, one
\* RST_STREAM(REFUSED_STREAM) with the promised stream's id is appended,
\* the promised stream is CLOSED, p's pending promised stream is cleared,
\* p's status is unchanged and EOF is returned; and a promised stream that
\* is RESERVED_REMOTE without a request is always still pending on a parent.
C10_PromiseRejected ==
  /\ [](\A c \in allocated :
          (streams[c].status = H2S_RESERVED_REMOTE
             /\ streams[c].request = NULL)
            => \E p \in allocated : streams[p].new_reserved_stream = c)
  /\ [][\A p \in Streams :
          (Called("promise_done", p) /\ PromiseDone(p))
            => LET c == streams[p].new_reserved_stream IN
               /\ c # NULL
               /\ Len(h2'.frames) = Len(h2.frames) + 1
               /\ SubSeq(h2'.frames, 1, Len(h2.frames)) = h2.frames
               /\ LET f == h2'.frames[Len(h2'.frames)] IN
                    /\ f.type = HTTP2_FRAME_TYPE_RST_STREAM
                    /\ f.id = streams[c].streamid
                    /\ f.reason = SERF_ERROR_HTTP2_REFUSED_STREAM
               /\ streams'[c].status = H2S_CLOSED
               /\ streams'[p].new_reserved_stream = NULL
               /\ streams'[p].status = streams[p].status
               /\ last'.ret = APR_EOF]_vars

C10_Witness ==
  /\ last.op = "promise_done"
  /\ last.ret = APR_EOF
  /\ streams[last.stream].new_reserved_stream = NULL
  /\ streams[last.stream].status = H2S_HALFCLOSED_LOCAL
  /\ \E c \in allocated \ {last.stream} :
       /\ streams[c].status = H2S_CLOSED
       /\ streams[c].request = NULL
       /\ h2.frames # <<>>
       /\ h2.frames[Len(h2.frames)] =
            RstFrame(streams[c].streamid, SERF_ERROR_HTTP2_REFUSED_STREAM)

\* C11: a stream created without an id gets its id only in the step that
\* serializes its HEADERS frame; the id is odd and greater than every id
\* given out that way before, whatever the order the streams were created
\* in, so the ids of two such streams always differ.
LocalId(s) == streams[s].streamid >= 0 /\ streams[s].streamid % 2 = 1

C11_DeferredIds ==
  /\ [](\A s \in allocated, t \in allocated :
          (s # t /\ LocalId(s) /\ LocalId(t))
            => streams[s].streamid # streams[t].streamid)
  /\ [][\A s \in Streams :
          (/\ Running
           /\ s \in allocated
           /\ streams[s].streamid < 0
           /\ streams'[s].streamid >= 0)
            => /\ last'.op = "serialize"
               /\ last'.stream = s
               /\ Head(h2.frames).type = HTTP2_FRAME_TYPE_HEADERS
               /\ streams'[s].streamid % 2 = 1
               /\ \A t \in allocated \ {s} :
                    LocalId(t) => streams'[s].streamid > streams[t].streamid
               /\ \A t \in Streams \ {s} :
                    streams'[t].streamid = streams[t].streamid]_vars

\* The stream created second was sent first: it has id 1, the other id 3.
C11_Witness ==
  /\ last.op = "serialize"
  /\ allocated = {1, 2}
  /\ streams[2].streamid = 1
  /\ streams[1].streamid = 3
  /\ streams[1].request # NULL
  /\ streams[2].request # NULL

\* C12: an event that is not legal in the stream's status is refused with
\* an error and leaves the stream as it was: a HEADERS or DATA frame
\* arriving on a HALFCLOSED_REMOTE or CLOSED stream, and a HEADERS frame
\* sent by setup_next_request on a stream that is not INIT or IDLE.
C12_IllegalRejected ==
  [][\A s \in Streams :
       /\ (/\ Running
           /\ last'.stream = s
           /\ last'.op \in {"handle_hpack", "handle_data"}
           /\ streams[s].status \in {H2S_HALFCLOSED_REMOTE, H2S_CLOSED})
            => /\ SERF_BUCKET_READ_ERROR(last'.ret)
               /\ streams'[s] = streams[s]
               /\ aggregate'[s] = aggregate[s]
       /\ (/\ Called("setup_next_request", s)
           /\ streams[s].status \notin {H2S_INIT, H2S_IDLE})
            => /\ last'.ret \notin {APR_SUCCESS}
               /\ streams'[s].status = streams[s].status
               /\ h2'.frames = h2.frames]_vars

\* C13: after every handle_hpack(HEADERS) or handle_data call, with or
\* without a request bound to the stream, the call has returned and the
\* stream owns a response aggregate that holds the payload.
C13_PipelineAfterFrame ==
  [][\A s \in Streams :
       (/\ last'.stream = s
        /\ last'.op \in {"handle_hpack", "handle_data"}
        /\ last'.ret # "agg")
         => /\ fault' = "none"
            /\ streams'[s].response_agg # NULL
            /\ aggregate'[s] >= 1]_vars

\* C14: when a process call has released the response aggregate (it
\* returned EOF and response_agg is null), the next process call on the
\* stream returns an error status and the next frame delivered to it is
\* handled; neither stops the process on an assertion or a null aggregate.
C14_ReadAfterRelease ==
  [][\A s \in Streams :
       (/\ last.op = "process"
        /\ last.stream = s
        /\ last.ret = APR_EOF
        /\ streams[s].response_agg = NULL
        /\ last'.stream = s
        /\ last'.op \in {"process", "handle_hpack", "handle_data"})
         => /\ fault' = "none"
            /\ (last'.op = "process")
                 => SERF_BUCKET_READ_ERROR(last'.ret)]_vars

\* C15: a HEADERS or DATA frame with END_STREAM moves a HALFCLOSED_LOCAL
\* stream to CLOSED and a stream in any other status (OPEN among them) to
\* HALFCLOSED_REMOTE; a HEADERS or DATA frame without END_STREAM, and a
\* PUSH_PROMISE header block, leave the status of the stream unchanged.
AfterEndStream(status) ==
  IF status = H2S_HALFCLOSED_LOCAL THEN H2S_CLOSED ELSE H2S_HALFCLOSED_REMOTE

C15_EndStream ==
  [][\A s \in Streams :
       /\ \A e \in BOOLEAN :
            (/\ Called("handle_hpack", s)
             /\ last'.ret = "NULL"
             /\ HandleHeaders(s, e))
              => streams'[s].status =
                   IF e THEN AfterEndStream(streams[s].status)
                   ELSE streams[s].status
       /\ \A e \in BOOLEAN :
            (Called("handle_data", s) /\ HandleData(s, e))
              => streams'[s].status =
                   IF e THEN AfterEndStream(streams[s].status)
                   ELSE streams[s].status
       /\ (Called("handle_hpack", s) /\ last'.ret = "agg")
            => streams'[s].status = streams[s].status]_vars

\* END_STREAM arrived on DATA for a request that was sent.
C15_Witness ==
  /\ last.op = "handle_data"
  /\ streams[last.stream].status = H2S_CLOSED
  /\ streams[last.stream].request # NULL
  /\ streams[last.stream].response_agg # NULL
  /\ aggregate[last.stream] = MaxBuckets
  /\ last.stream \in promise_agg

\* C16: when the handler returns a read error, process takes the request
\* out of written_reqs (the other requests keep their order), unbinds it
\* from the stream, resets the stream locally if it was not CLOSED (status
\* CLOSED, one RST_STREAM with the stream's id if the id is assigned),
\* enqueues nothing if it was CLOSED, returns the handler's error and
\* neither drains nor releases the aggregate.
Without(list, request) == SelectSeq(list, LAMBDA x : x # request)

C16_HandlerError ==
  [][\A s \in Streams, taken \in 0..MaxBuckets :
       (/\ Called("process", s)
        /\ SERF_BUCKET_READ_ERROR(last'.ret)
        /\ Process(s, SERF_ERROR, taken))
         => LET request == streams[s].request IN
            /\ request # NULL
            /\ WrittenList' = Without(WrittenList, request)
            /\ ListEnds(WrittenList', conn'.written_reqs,
                        conn'.written_reqs_tail)
            /\ streams'[s].request = NULL
            /\ last'.ret = SERF_ERROR
            /\ streams'[s].response_agg = streams[s].response_agg
            /\ aggregate'[s] = aggregate[s] - taken
            /\ streams'[s].status = H2S_CLOSED
            /\ IF streams[s].status # H2S_CLOSED /\ streams[s].streamid >= 0
                 THEN /\ Len(h2'.frames) = Len(h2.frames) + 1
                      /\ SubSeq(h2'.frames, 1, Len(h2.frames)) = h2.frames
                      /\ LET f == h2'.frames[Len(h2'.frames)] IN
                           /\ f.type = HTTP2_FRAME_TYPE_RST_STREAM
                           /\ f.id = streams[s].streamid
                 ELSE h2'.frames = h2.frames]_vars

\* The handler of the second of two written requests failed.
C16_Witness ==
  /\ last.op = "process"
  /\ last.ret = SERF_ERROR
  /\ streams[last.stream].request = NULL
  /\ streams[last.stream].status = H2S_CLOSED
  /\ streams[last.stream].streamid >= 0
  /\ streams[last.stream].response_agg # NULL
  /\ Len(WrittenList) = 1
  /\ destroyed # {}
  /\ h2.frames # <<>>
  /\ h2.frames[Len(h2.frames)].type = HTTP2_FRAME_TYPE_RST_STREAM
  /\ h2.frames[Len(h2.frames)].reason = SERF_ERROR

\* C17: a process call whose handler returns neither EOF nor a read error
\* returns that status and leaves the request binding, the written list,
\* the stream and its aggregate in place; the aggregate is released only by
\* a process call that returns EOF on a CLOSED or HALFCLOSED_REMOTE stream,
\* and a process call whose drain runs dry in another status returns
\* EAGAIN and keeps the aggregate.
C17_ProcessOutcomes ==
  [][\A s \in Streams :
       /\ \A hres \in HandlerResults \ {APR_EOF, SERF_ERROR},
            taken \in 0..MaxBuckets :
            (/\ Called("process", s)
             /\ streams[s].request # NULL
             /\ Process(s, hres, taken))
            => /\ last'.ret = hres
               /\ streams' = streams
               /\ conn' = conn
               /\ requests' = requests
               /\ destroyed' = destroyed
               /\ h2' = h2
               /\ aggregate'[s] <= aggregate[s]
       /\ (/\ Running
           /\ s \in allocated
           /\ streams[s].response_agg # NULL
           /\ streams'[s].response_agg = NULL)
            => /\ last'.op = "process"
               /\ last'.stream = s
               /\ last'.ret = APR_EOF
               /\ streams'[s].status \in {H2S_CLOSED, H2S_HALFCLOSED_REMOTE}
               /\ streams'[s].request = NULL
               /\ aggregate'[s] = 0
       /\ (/\ Called("process", s)
           /\ streams'[s].request = NULL
           /\ ~SERF_BUCKET_READ_ERROR(last'.ret)
           /\ streams[s].status \notin {H2S_CLOSED, H2S_HALFCLOSED_REMOTE})
            => /\ last'.ret = APR_EAGAIN
               /\ streams'[s].response_agg = streams[s].response_agg
               /\ streams'[s].response_agg # NULL]_vars

\* The handler asked to be called again: nothing moved.
C17_Witness ==
  /\ last.op = "process"
  /\ last.ret = APR_EAGAIN
  /\ streams[last.stream].request # NULL
  /\ streams[last.stream].response_agg # NULL
  /\ streams[last.stream].status = H2S_CLOSED
  /\ aggregate[last.stream] >= 1
  /\ Len(WrittenList) = NReqs

\* C18: between operations nr_of_written_reqs equals the number of
\* requests linked in written_reqs, and is never negative.
C18_CounterMatchesList ==
  /\ conn.nr_of_written_reqs = Len(WrittenList)
  /\ conn.nr_of_written_reqs >= 0

\* C19: between operations a request bound to a stream is linked in
\* written_reqs and not in unwritten_reqs, no request is linked in both
\* lists, and no request is bound to two streams.
Members(list) == {list[k] : k \in 1..Len(list)}

C19_BoundIsWritten ==
  /\ \A s \in allocated :
       streams[s].request # NULL
         => /\ streams[s].request \in Members(WrittenList)
            /\ streams[s].request \notin Members(UnwrittenList)
  /\ Members(WrittenList) \cap Members(UnwrittenList) = {}
  /\ \A s \in allocated, t \in allocated :
       (s # t /\ streams[s].request # NULL)
         => streams[s].request # streams[t].request

\* C20: a stream whose request was sent eventually is CLOSED with its
\* request unbound and its response aggregate released, when the peer's
\* END_STREAM is eventually delivered, the handler eventually returns EOF
\* and the processor keeps being called; and every processor call returns,
\* with EAGAIN, EOF, success or an error.
Completed(s) ==
  /\ streams[s].status = H2S_CLOSED
  /\ streams[s].request = NULL
  /\ streams[s].response_agg = NULL

C20_Completion ==
  /\ \A s \in Streams :
       (/\ s \in allocated
        /\ streams[s].status = H2S_HALFCLOSED_LOCAL
        /\ streams[s].request # NULL) ~> Completed(s)
  /\ [][\A s \in Streams :
          (last'.op = "process" /\ last'.stream = s)
            => /\ fault' = "none"
               /\ last'.ret \in HandlerResults]_vars

C20_Witness ==
  /\ last.op = "process"
  /\ last.ret = APR_EOF
  /\ Completed(last.stream)
  /\ streams[last.stream].streamid = 1
  /\ destroyed # {}

\* The request lifecycle: a stream opened for the connection's requests and
\* the frames of its response.
Next ==
  \/ \E s \in Streams, id \in CreateIds :
       Cardinality(allocated) < MaxOpen /\ StreamCreate(s, id)
  \/ \E s \in Streams, reason \in Reasons, l \in BOOLEAN :
       StreamReset(s, reason, l)
  \/ \E s \in Streams, prep \in PrepOutcomes, ok \in BOOLEAN :
       SetupNextRequest(s, prep, ok)
  \/ Serialize
  \/ \E s \in Streams, e \in BOOLEAN : HandleHeaders(s, e)
  \/ \E s \in Streams, e \in BOOLEAN : HandleData(s, e)
  \/ \E s \in Streams, hres \in HandlerResults, taken \in 0..MaxBuckets :
       Process(s, hres, taken)

Spec == Init /\ [][Next]_vars

\* Server push: a stream of the connection and the streams the peer
\* reserves on it with PUSH_PROMISE.
NextPush ==
  \/ \E s \in Streams, id \in CreateIds :
       Cardinality(allocated) < MaxOpen /\ StreamCreate(s, id)
  \/ \E s \in Streams, reason \in Reasons, l \in BOOLEAN :
       StreamReset(s, reason, l)
  \/ \E s \in Streams, prep \in PrepOutcomes, ok \in BOOLEAN :
       SetupNextRequest(s, prep, ok)
  \/ Serialize
  \/ \E s \in Streams : HandlePushPromise(s)
  \/ \E p \in Streams, c \in Streams, id \in PromisedIds :
       ReservePromise(p, c, id)
  \/ \E p \in Streams : PromiseDone(p)

SpecPush == Init /\ [][NextPush]_vars

\* Inbound frames: the header blocks and data the peer sends on a stream
\* of the connection.
NextInbound ==
  \/ \E s \in Streams, id \in CreateIds :
       Cardinality(allocated) < MaxOpen /\ StreamCreate(s, id)
  \/ \E s \in Streams, prep \in PrepOutcomes, ok \in BOOLEAN :
       SetupNextRequest(s, prep, ok)
  \/ Serialize
  \/ \E s \in Streams, e \in BOOLEAN : HandleHeaders(s, e)
  \/ \E s \in Streams, e \in BOOLEAN : HandleData(s, e)
  \/ \E s \in Streams : HandlePushPromise(s)

SpecInbound == Init /\ [][NextInbound]_vars

\* A request and its response: the request is sent, the peer answers and
\* ends the stream, the processor is called as long as there is something
\* to process.
NextLive ==
  \/ \E s \in Streams, id \in CreateIds :
       Cardinality(allocated) < MaxOpen /\ StreamCreate(s, id)
  \/ \E s \in Streams, prep \in PrepOutcomes, ok \in BOOLEAN :
       SendRequest(s, prep, ok)
  \/ Serialize
  \/ \E s \in Streams, e \in BOOLEAN : ResponseHeaders(s, e)
  \/ \E s \in Streams, e \in BOOLEAN : ResponseData(s, e)
  \/ \E s \in Streams, hres \in HandlerResults, taken \in 0..MaxBuckets :
       ProcessResponse(s, hres, taken)

SpecLive ==
  /\ Init
  /\ [][NextLive]_vars
  /\ WF_vars(Serialize)
  /\ \A s \in Streams :
       /\ SF_vars(ResponseHeaders(s, TRUE) \/ ResponseData(s, TRUE))
       /\ WF_vars(\E taken \in 0..MaxBuckets :
                    streams[s].request # NULL
                      /\ ProcessResponse(s, APR_EOF, taken))
       /\ WF_vars(\E hres \in HandlerResults, taken \in 0..MaxBuckets :
                    ProcessResponse(s, hres, taken))

\* Stream ids: several streams opened for the connection's requests, and
\* the order their HEADERS frames are written in.
NextIds ==
  \/ \E s \in Streams, id \in CreateIds : StreamCreate(s, id)
  \/ \E s \in Streams, reason \in Reasons, l \in BOOLEAN :
       StreamReset(s, reason, l)
  \/ \E s \in Streams, prep \in PrepOutcomes, ok \in BOOLEAN :
       SetupNextRequest(s, prep, ok)
  \/ Serialize

SpecIds == Init /\ [][NextIds]_vars
====
